---- MODULE Spec2Model ----
(***************************************************************************)
(* A model of four parts of pulpcore:                                      *)
(*   - the declarative-content pipeline stages query_existing_content_units*)
(*     and content_unit_saver (plugin/pulpcore/plugin/stages/              *)
(*     content_unit_stages.py), run by one or two pipeline runs over a     *)
(*     shared content store;                                               *)
(*   - the repository version tasks delete_version and add_and_remove      *)
(*     (pulpcore/app/tasks/repository.py);                                 *)
(*   - the validation of an add/remove request                             *)
(*     (pulpcore/app/serializers/repository.py);                           *)
(*   - the artifact repair _repair_artifacts_for_content and _repair_ca    *)
(*     (pulpcore/app/tasks/repository.py).                                 *)
(* Each part has its own specifications; the variables of the other parts  *)
(* stay at their initial value.                                            *)
(***************************************************************************)
EXTENDS Integers, Sequences, FiniteSets, TLC

VARIABLES
    runs,                \* the pipeline runs that exist
    input,               \* per run: the descriptors the upstream stage will send
    produced,            \* per run: number of puts the upstream stage has done
    after,               \* per run: TRUE iff it started when every other run had ended
    in_q,                \* per run: input queue of query_existing_content_units
    mid_q,               \* per run: its out_q, the in_q of content_unit_saver
    out_q,               \* per run: out_q of content_unit_saver (never consumed)
    sent,                \* per run: everything query_existing_content_units has put
    dcs,                 \* per run: DeclarativeContent.content of every item
    resolver,            \* per run: locals of query_existing_content_units, and the
                         \* model types it has queried for its batch
    saver,               \* per run: locals of content_unit_saver
    contents,            \* store: committed Content rows
    content_artifacts,   \* store: committed ContentArtifact rows
    remote_artifacts,    \* store: committed RemoteArtifact rows
    versions,            \* repository: its RepositoryVersion rows
    next_version,        \* repository: number the next new version gets
    outcome,             \* repository: how the last task or request ended
    call,                \* repository: the last task or request and its arguments
    assigned,            \* repository: every version number given out so far
    timestamp_of_interest, \* store: per existing content id, when it was last touched
    txs,                 \* repository: the delete_version calls that run concurrently
    query_set,           \* repair: the ContentArtifacts in scope, in iteration order
    file,                \* storage: per Artifact, the state of its stored file
    repair,              \* repair: locals of _repair_artifacts_for_content
    tasks,               \* repair: per ContentArtifact, its _repair_ca task
    reports              \* repair: the three ProgressReports

pipeVars == <<runs, input, produced, after, in_q, mid_q, out_q, sent, dcs,
              resolver, saver, contents, content_artifacts, remote_artifacts>>
repoVars == <<versions, next_version, outcome, call, assigned, timestamp_of_interest,
              txs>>
repairVars == <<query_set, file, repair, tasks, reports>>
vars == <<runs, input, produced, after, in_q, mid_q, out_q, sent, dcs,
          resolver, saver, contents, content_artifacts, remote_artifacts,
          versions, next_version, outcome, call, assigned, timestamp_of_interest,
          txs, query_set, file, repair, tasks, reports>>

(***************************************************************************)
(* Bounds                                                                  *)
(***************************************************************************)
MaxLen == 2          \* longest input of the single pipeline run of Spec
RaceLen == 1         \* longest input of each of the racing runs of SpecRace

Runs == {1, 2}
Descs == {1, 2, 3}   \* the logical content items an upstream stage can describe

(***************************************************************************)
(* Data                                                                    *)
(***************************************************************************)
None == 0            \* the sentinel; queue entries i >= 1 are the run's i-th item
NoPk == <<>>         \* pk of an unsaved Content (content._state.adding)
NoAttr == "no such attribute"

\* An Artifact: size and the six digests, all determined by the stored file a.
Artifact(a) ==
    [size |-> a, md5 |-> <<"md5", a>>, sha1 |-> <<"sha1", a>>,
     sha224 |-> <<"sha224", a>>, sha256 |-> <<"sha256", a>>,
     sha384 |-> <<"sha384", a>>, sha512 |-> <<"sha512", a>>]

DeclarativeArtifact(url, relative_path, a, remote) ==
    [url |-> url, relative_path |-> relative_path, artifact |-> Artifact(a),
     remote |-> remote]

\* The content items of the model.  Type "A" has the natural key (name), type
\* "B" the natural key (name, digest); an "A" content has no digest attribute.
\* Type "C" (item 4, a unit without files) has an empty natural key.
\* Items 1 and 2 store their only file under the same relative_path; item 3
\* is a multi-file unit.
Descriptor(d) ==
    CASE d = 1 -> [type |-> "A", name |-> "n1", digest |-> NoAttr,
                   d_artifacts |-> <<DeclarativeArtifact("u1", "p1", 1, "r1")>>]
      [] d = 2 -> [type |-> "A", name |-> "n2", digest |-> NoAttr,
                   d_artifacts |-> <<DeclarativeArtifact("u2", "p1", 2, "r1")>>]
      [] d = 3 -> [type |-> "B", name |-> "n1", digest |-> "d1",
                   d_artifacts |-> <<DeclarativeArtifact("u3", "p2", 1, "r2"),
                                     DeclarativeArtifact("u4", "p3", 2, "r2")>>]
      [] d = 4 -> [type |-> "C", name |-> "n1", digest |-> NoAttr,
                   d_artifacts |-> <<>>]

\* The unsaved candidate Content of descriptor d.
Candidate(d) ==
    [type |-> Descriptor(d).type, name |-> Descriptor(d).name,
     digest |-> Descriptor(d).digest, pk |-> NoPk]

natural_key_fields(type) ==
    CASE type = "A" -> <<"name">>
      [] type = "B" -> <<"name", "digest">>
      [] type = "C" -> <<>>

Range(s) == {s[i] : i \in DOMAIN s}

natural_key_dict(content) ==
    [f \in Range(natural_key_fields(content.type)) |-> content[f]]

\* Two Content rows are the same entity: same type, equal natural key.
SameEntity(c1, c2) ==
    /\ c1.type = c2.type
    /\ natural_key_dict(c1) = natural_key_dict(c2)

\* The descriptor a saved Content row was built from: a row saved by run r
\* for its i-th item has pk <<r, i>>, a row of the initial store pk <<0, d>>.
DescOf(pk, inp) == IF pk[1] = 0 THEN pk[2] ELSE inp[pk[1]][pk[2]]

ContentArtifactOf(pk, da) ==
    [content |-> pk, artifact |-> da.artifact, relative_path |-> da.relative_path]

remote_artifact_data(da) ==
    [url |-> da.url, size |-> da.artifact.size, md5 |-> da.artifact.md5,
     sha1 |-> da.artifact.sha1, sha224 |-> da.artifact.sha224,
     sha256 |-> da.artifact.sha256, sha384 |-> da.artifact.sha384,
     sha512 |-> da.artifact.sha512, remote |-> da.remote]

RemoteArtifact(content_artifact, data) ==
    [content_artifact |-> content_artifact, url |-> data.url, size |-> data.size,
     md5 |-> data.md5, sha1 |-> data.sha1, sha224 |-> data.sha224,
     sha256 |-> data.sha256, sha384 |-> data.sha384, sha512 |-> data.sha512,
     remote |-> data.remote]

\* Rows of the initial store: content d saved by an earlier pipeline run.
SeedContent(d) == [Candidate(d) EXCEPT !.pk = <<0, d>>]
SeedContentArtifacts(d) ==
    {ContentArtifactOf(<<0, d>>, Descriptor(d).d_artifacts[j]) :
        j \in DOMAIN Descriptor(d).d_artifacts}
SeedRemoteArtifacts(d) ==
    {RemoteArtifact(ContentArtifactOf(<<0, d>>, Descriptor(d).d_artifacts[j]),
                    remote_artifact_data(Descriptor(d).d_artifacts[j])) :
        j \in DOMAIN Descriptor(d).d_artifacts}

SeqsUpTo(S, n) == UNION {[1..k -> S] : k \in 0..n}

(***************************************************************************)
(* The event loop of one pipeline run.  The stages of a run are coroutines *)
(* of one event loop: a stage that is between two awaits (issuing its      *)
(* queries, or inside its transaction) is not interleaved with the other   *)
(* coroutines of its run, only with the other runs.                        *)
(***************************************************************************)
TxPcs == {"save", "bulk_create_ca", "bulk_create_ra"}

\* A stage that raises ends the run: the pipeline cancels its other stages.
Alive(r) == resolver[r].pc # "crashed" /\ saver[r].pc # "crashed"

LoopFree(r) == Alive(r) /\ resolver[r].pc # "query" /\ saver[r].pc \notin TxPcs

Ended(r) == ~Alive(r) \/ (resolver[r].pc = "done" /\ saver[r].pc = "done")

(***************************************************************************)
(* The upstream stage: puts the run's items, then one sentinel.            *)
(***************************************************************************)
UpstreamPut(r) ==
    /\ r \in runs
    /\ produced[r] <= Len(input[r])
    /\ LoopFree(r)
    /\ in_q' = [in_q EXCEPT ![r] =
                   Append(@, IF produced[r] < Len(input[r])
                             THEN produced[r] + 1 ELSE None)]
    /\ produced' = [produced EXCEPT ![r] = @ + 1]
    /\ UNCHANGED <<runs, input, after, mid_q, out_q, sent, dcs, resolver, saver,
                   contents, content_artifacts, remote_artifacts, repoVars, repairVars>>

(***************************************************************************)
(* query_existing_content_units                                            *)
(***************************************************************************)
\* Mutant of content_q: one Q per item of the batch, whatever its type.
RECURSIVE content_q_per_item(_, _, _)
content_q_per_item(list, dc, q) ==
    IF list = <<>> THEN q
    ELSE IF Head(list) = None THEN content_q_per_item(Tail(list), dc, q)
    ELSE content_q_per_item(Tail(list), dc,
             Append(q, [model_type |-> dc[Head(list)].type,
                        keys |-> {natural_key_dict(dc[Head(list)])}]))

\* Lines 48-56: one Q per model type, in the order the types first appear;
\* each Q is Q(pk=None) OR-ed with the unit keys of the batch's items.
RECURSIVE content_q(_, _, _)
content_q(list, dc, q) ==
    IF list = <<>> THEN q
    ELSE IF Head(list) = None THEN content_q(Tail(list), dc, q)
    ELSE LET content == dc[Head(list)]
             unit_key == natural_key_dict(content)
             seen == {i \in DOMAIN q : q[i].model_type = content.type}
         IN  content_q(Tail(list), dc,
                 IF seen = {}
                 THEN Append(q, [model_type |-> content.type, keys |-> {unit_key}])
                 ELSE [i \in DOMAIN q |->
                          IF i \in seen
                          THEN [q[i] EXCEPT !.keys = @ \cup {unit_key}]
                          ELSE q[i]])

\* Mutant of available: processing starts with one entry taken.
available_one(queue) == 1

\* Lines 36-46 and 105-115: get_nowait is called until it raises QueueEmpty,
\* so the loop takes as many entries as the queue holds.
available(queue) == Len(queue)

\* Mutant of Filter: the query finds no stored row.
FilterNothing(model_type, keys, rows) == {}

\* Line 59: model_type.objects.filter(q).  Q(pk=None) matches no row and an
\* empty unit key adds nothing to the disjunction.
Filter(model_type, keys, rows) ==
    {c \in rows :
        /\ c.type = model_type
        /\ \E k \in keys : DOMAIN k # {} /\ \A f \in DOMAIN k : c[f] = k[f]}

\* Lines 63-69: the field-by-field comparison of an item's content with a
\* result, over the result's natural key fields; getattr of a field the
\* item's content does not have raises AttributeError.
RECURSIVE same_unit(_, _, _)
same_unit(content, result, fields) ==
    IF fields = <<>> THEN "same"
    ELSE IF content[Head(fields)] = NoAttr THEN "AttributeError"
    ELSE IF content[Head(fields)] # result[Head(fields)] THEN "not_same"
    ELSE same_unit(content, result, Tail(fields))

Compare(content, result) ==
    same_unit(content, result, natural_key_fields(result.type))

Items(list) == {list[i] : i \in DOMAIN list} \ {None}

\* Lines 34-56.  With the queue empty and no batch the stage waits in
\* in_q.get() (pc "loop", in_q empty); once the queue holds something, the
\* get_nowait loop, which has no await, takes all of it, and processing starts
\* when the queue is found empty with the batch in hand.  after records whether the run's first batch, and so each
\* of its reads and writes of the store, came when every other run had ended.
ResolverDrain(r) ==
    /\ r \in runs
    /\ resolver[r].pc = "loop"
    /\ in_q[r] # <<>>
    /\ LoopFree(r)
    /\ LET n == available(in_q[r])
           list == resolver[r].declarative_content_list \o SubSeq(in_q[r], 1, n)
           q == content_q(list, dcs[r], <<>>)
       IN  /\ resolver' = [resolver EXCEPT ![r] =
                  [@ EXCEPT !.pc = IF q = <<>> THEN "put" ELSE "query",
                            !.declarative_content_list = list,
                            !.shutdown = @ \/ None \in Range(list),
                            !.content_q_by_type = q,
                            !.queried = <<>>]]
           /\ in_q' = [in_q EXCEPT ![r] = SubSeq(@, n + 1, Len(@))]
    /\ after' = IF sent[r] = <<>>
                THEN [after EXCEPT ![r] = \A o \in runs \ {r} : Ended(o)]
                ELSE after
    /\ UNCHANGED <<runs, input, produced, mid_q, out_q, sent, dcs, saver,
                   contents, content_artifacts, remote_artifacts, repoVars, repairVars>>

\* Lines 58-70, one model type per step: the query reads the committed rows,
\* and every result replaces the content of each item of the batch that
\* compares equal on the result's natural key fields.  The results of one
\* query have one type and distinct keys, so their order does not matter.
ResolverQuery(r) ==
    /\ r \in runs
    /\ resolver[r].pc = "query"
    /\ Alive(r)
    /\ LET q == resolver[r].content_q_by_type
           list == resolver[r].declarative_content_list
           results == Filter(Head(q).model_type, Head(q).keys, contents)
           raised == \E i \in Items(list), result \in results :
                         Compare(dcs[r][i], result) = "AttributeError"
       IN  IF raised
           THEN /\ resolver' = [resolver EXCEPT ![r] =
                       [@ EXCEPT !.pc = "crashed", !.error = "AttributeError",
                                 !.queried = Append(@, Head(q).model_type)]]
                /\ dcs' = dcs
           ELSE /\ resolver' = [resolver EXCEPT ![r] =
                       [@ EXCEPT !.content_q_by_type = Tail(q),
                                 !.queried = Append(@, Head(q).model_type),
                                 !.pc = IF Tail(q) = <<>> THEN "put" ELSE "query"]]
                /\ dcs' = [dcs EXCEPT ![r] =
                       [i \in DOMAIN @ |->
                           IF /\ i \in Items(list)
                              /\ \E result \in results : Compare(@[i], result) = "same"
                           THEN CHOOSE result \in results : Compare(@[i], result) = "same"
                           ELSE @[i]]]
    /\ UNCHANGED <<runs, input, produced, after, in_q, mid_q, out_q, sent, saver,
                   contents, content_artifacts, remote_artifacts, repoVars, repairVars>>

\* Lines 71-75: every entry of the batch is put on out_q, the sentinel
\* included; after the last one the batch is emptied.
ResolverPut(r) ==
    /\ r \in runs
    /\ resolver[r].pc = "put"
    /\ LoopFree(r)
    /\ LET list == resolver[r].declarative_content_list
           i == resolver[r].next
       IN  /\ mid_q' = [mid_q EXCEPT ![r] = Append(@, list[i])]
           /\ sent' = [sent EXCEPT ![r] = Append(@, list[i])]
           /\ resolver' = [resolver EXCEPT ![r] =
                  IF i < Len(list)
                  THEN [@ EXCEPT !.next = i + 1]
                  ELSE [@ EXCEPT !.next = 1,
                                 !.declarative_content_list = <<>>,
                                 !.queried = <<>>,
                                 !.pc = IF resolver[r].shutdown THEN "final" ELSE "loop"]]
    /\ UNCHANGED <<runs, input, produced, after, in_q, out_q, dcs, saver,
                   contents, content_artifacts, remote_artifacts, repoVars, repairVars>>

\* Line 76: await out_q.put(None).
ResolverFinal(r) ==
    /\ r \in runs
    /\ resolver[r].pc = "final"
    /\ LoopFree(r)
    /\ mid_q' = [mid_q EXCEPT ![r] = Append(@, None)]
    /\ sent' = [sent EXCEPT ![r] = Append(@, None)]
    /\ resolver' = [resolver EXCEPT ![r].pc = "done"]
    /\ UNCHANGED <<runs, input, produced, after, in_q, out_q, dcs, saver,
                   contents, content_artifacts, remote_artifacts, repoVars, repairVars>>

(***************************************************************************)
(* The store.  Content rows are unique per type and natural key; rows      *)
(* written inside transaction.atomic() are seen by no other connection     *)
(* until the block exits normally, and are dropped when it raises.         *)
(***************************************************************************)
\* Mutant of IntegrityError: a store without the unique constraint.
NoUniqueConstraint(content, rows) == FALSE

\* Content.save() of a row whose natural key is already stored.
IntegrityError(content, rows) ==
    /\ natural_key_fields(content.type) # <<>>
    /\ \E c \in rows : SameEntity(c, content)

\* Mutant of WriteInTransaction: the writes are made outside a transaction.
WriteAutocommit(table, rows) == table \cup rows

\* Line 121: the visible table after rows are written inside the atomic
\* block: unchanged until commit.
WriteInTransaction(table, rows) == table

EmptyMap == [p \in {} |-> None]
NoTx == [contents |-> {}, content_artifacts |-> {}, remote_artifacts |-> {}]

(***************************************************************************)
(* content_unit_saver                                                      *)
(***************************************************************************)
\* Lines 135-147 for the d_artifacts of one content: the map is keyed by
\* relative_path, a later entry replaces an earlier one with the same key.
RECURSIVE map_artifacts(_, _)
map_artifacts(map, das) ==
    IF das = <<>> THEN map
    ELSE map_artifacts(
             [p \in DOMAIN map \cup {Head(das).relative_path} |->
                 IF p = Head(das).relative_path
                 THEN remote_artifact_data(Head(das)) ELSE map[p]],
             Tail(das))

\* Mutant of Adding: every content of the batch is taken for unsaved.
AlwaysAdding(content) == TRUE

\* Line 126: content._state.adding.
Adding(content) == content.pk = NoPk

\* Lines 122-147: the loop over the batch.  st holds the loop's variables:
\* dc (the contents of the run's items), saved (Content rows written),
\* content_artifact_bulk, remote_artifact_map, shutdown and error.
\* content.save() inserts a row for a content without pk, which gets the pk
\* <<r, i>>, and rewrites the row of a content that has one.
RECURSIVE save_loop(_, _, _, _, _)
save_loop(r, inp, list, committed, st) ==
    IF list = <<>> \/ st.error # "" THEN st
    ELSE IF Head(list) = None
    THEN save_loop(r, inp, Tail(list), committed, [st EXCEPT !.shutdown = TRUE])
    ELSE IF ~Adding(st.dc[Head(list)])
    THEN save_loop(r, inp, Tail(list), committed, st)
    ELSE IF st.dc[Head(list)].pk = NoPk
            /\ IntegrityError(st.dc[Head(list)], committed \cup st.saved)
    THEN [st EXCEPT !.error = "IntegrityError"]
    ELSE LET i == Head(list)
             content == IF st.dc[i].pk = NoPk
                        THEN [st.dc[i] EXCEPT !.pk = <<r, i>>] ELSE st.dc[i]
             das == Descriptor(inp[i]).d_artifacts
         IN  save_loop(r, inp, Tail(list), committed,
                 [st EXCEPT
                     !.dc[i] = content,
                     !.saved = @ \cup {content},
                     !.content_artifact_bulk =
                         @ \o [j \in DOMAIN das |-> ContentArtifactOf(content.pk, das[j])],
                     !.remote_artifact_map = map_artifacts(@, das)])

\* Lines 149-154: each ContentArtifact returned by bulk_create pops the map
\* entry of its relative_path; a missing entry raises KeyError.
RECURSIVE pair_loop(_, _, _)
pair_loop(created, map, bulk) ==
    IF created = <<>>
    THEN [error |-> "", remote_artifact_map |-> map, remote_artifact_bulk |-> bulk]
    ELSE IF Head(created).relative_path \notin DOMAIN map
    THEN [error |-> "KeyError", remote_artifact_map |-> map,
          remote_artifact_bulk |-> bulk]
    ELSE pair_loop(Tail(created),
                   [p \in DOMAIN map \ {Head(created).relative_path} |-> map[p]],
                   Append(bulk, RemoteArtifact(Head(created),
                                               map[Head(created).relative_path])))

\* Mutants of NonNone: the sentinel forwarded as soon as it is seen, and the
\* batch forwarded newest first.
SentinelFirst(list) ==
    IF None \in Range(list)
    THEN <<None>> \o SelectSeq(list, LAMBDA x : x # None)
    ELSE SelectSeq(list, LAMBDA x : x # None)

NewestFirst(list) ==
    LET items == SelectSeq(list, LAMBDA x : x # None)
    IN  [k \in DOMAIN items |-> items[Len(items) + 1 - k]]

\* Lines 158-161: the entries of the batch that are put on out_q.
NonNone(list) == SelectSeq(list, LAMBDA x : x # None)

\* Lines 162-164, after the last put of a batch.
AfterPuts(s) ==
    IF s.shutdown
    THEN [s EXCEPT !.pc = "final", !.next = 1]
    ELSE [s EXCEPT !.pc = "loop", !.next = 1, !.declarative_content_list = <<>>]

\* Lines 103-119: as in the first stage, the get_nowait loop takes all the
\* queue holds; then the bulk lists and the map are reset.  batch_in records
\* the content each item of the batch had when the batch was formed.
SaverDrain(r) ==
    /\ r \in runs
    /\ saver[r].pc = "loop"
    /\ mid_q[r] # <<>>
    /\ LoopFree(r)
    /\ LET n == available(mid_q[r])
           list == saver[r].declarative_content_list \o SubSeq(mid_q[r], 1, n)
       IN  /\ saver' = [saver EXCEPT ![r] =
                  [@ EXCEPT !.pc = "save",
                            !.declarative_content_list = list,
                            !.content_artifact_bulk = <<>>,
                            !.remote_artifact_bulk = <<>>,
                            !.remote_artifact_map = EmptyMap,
                            !.tx = NoTx,
                            !.batch_in = [i \in Items(list) |-> dcs[r][i]]]]
           /\ mid_q' = [mid_q EXCEPT ![r] = SubSeq(@, n + 1, Len(@))]
    /\ UNCHANGED <<runs, input, produced, after, in_q, out_q, sent, dcs, resolver,
                   contents, content_artifacts, remote_artifacts, repoVars, repairVars>>

\* Rows another run's open transaction has written and not yet committed: a
\* save of the same natural key waits for that transaction to end.
Locked(r) ==
    UNION {saver[o].tx.contents : o \in {x \in runs \ {r} : saver[x].pc \in TxPcs}}

\* Lines 121-147: the saves of the batch's unsaved contents.
SaverSave(r) ==
    /\ r \in runs
    /\ Alive(r)
    /\ saver[r].pc = "save"
    /\ \A i \in Items(saver[r].declarative_content_list) :
           Adding(dcs[r][i]) => ~IntegrityError(dcs[r][i], Locked(r))
    /\ LET st == save_loop(r, input[r], saver[r].declarative_content_list, contents,
                     [dc |-> dcs[r], saved |-> {}, content_artifact_bulk |-> <<>>,
                      remote_artifact_map |-> EmptyMap,
                      shutdown |-> saver[r].shutdown, error |-> ""])
       IN  /\ dcs' = [dcs EXCEPT ![r] = st.dc]
           /\ IF st.error # ""
              THEN /\ saver' = [saver EXCEPT ![r] =
                          [@ EXCEPT !.pc = "crashed", !.error = st.error,
                                    !.shutdown = st.shutdown]]
                   /\ contents' = contents
              ELSE /\ saver' = [saver EXCEPT ![r] =
                          [@ EXCEPT !.pc = "bulk_create_ca",
                                    !.shutdown = st.shutdown,
                                    !.content_artifact_bulk = st.content_artifact_bulk,
                                    !.remote_artifact_map = st.remote_artifact_map,
                                    !.tx = [@ EXCEPT !.contents = st.saved]]]
                   /\ contents' = WriteInTransaction(contents, st.saved)
    /\ UNCHANGED <<runs, input, produced, after, in_q, mid_q, out_q, sent, resolver,
                   content_artifacts, remote_artifacts, repoVars, repairVars>>

\* Lines 149-154: ContentArtifact.objects.bulk_create, then the pairing of
\* every created row with its RemoteArtifact data.
SaverBulkCreateCA(r) ==
    /\ r \in runs
    /\ Alive(r)
    /\ saver[r].pc = "bulk_create_ca"
    /\ LET created == saver[r].content_artifact_bulk
           paired == pair_loop(created, saver[r].remote_artifact_map, <<>>)
       IN  /\ content_artifacts' = WriteInTransaction(content_artifacts, Range(created))
           /\ saver' = [saver EXCEPT ![r] =
                  [@ EXCEPT !.pc = IF paired.error # "" THEN "crashed"
                                   ELSE "bulk_create_ra",
                            !.error = paired.error,
                            !.remote_artifact_map = paired.remote_artifact_map,
                            !.remote_artifact_bulk = paired.remote_artifact_bulk,
                            !.tx = IF paired.error # "" THEN @
                                   ELSE [@ EXCEPT !.content_artifacts = Range(created)]]]
    /\ UNCHANGED <<runs, input, produced, after, in_q, mid_q, out_q, sent, dcs,
                   resolver, contents, remote_artifacts, repoVars, repairVars>>

\* Line 156 and the normal exit of the atomic block: RemoteArtifact
\* bulk_create, then the commit makes the rows of the batch visible.
SaverBulkCreateRA(r) ==
    /\ r \in runs
    /\ Alive(r)
    /\ saver[r].pc = "bulk_create_ra"
    /\ contents' = contents \cup saver[r].tx.contents
    /\ content_artifacts' = content_artifacts \cup saver[r].tx.content_artifacts
    /\ remote_artifacts' = remote_artifacts \cup Range(saver[r].remote_artifact_bulk)
    /\ saver' = [saver EXCEPT ![r] =
           LET s == [@ EXCEPT !.tx = [@ EXCEPT !.remote_artifacts =
                                         Range(saver[r].remote_artifact_bulk)]]
           IN  IF NonNone(s.declarative_content_list) = <<>>
               THEN AfterPuts(s)
               ELSE [s EXCEPT !.pc = "put", !.next = 1]]
    /\ UNCHANGED <<runs, input, produced, after, in_q, mid_q, out_q, sent, dcs,
                   resolver, repoVars, repairVars>>

\* A store operation of the atomic block (a save, a bulk_create, the commit)
\* fails: the exception leaves the block, the transaction is rolled back.
SaverFail(r) ==
    /\ r \in runs
    /\ Alive(r)
    /\ saver[r].pc \in TxPcs
    /\ saver' = [saver EXCEPT ![r] = [@ EXCEPT !.pc = "crashed", !.error = "DatabaseError"]]
    /\ UNCHANGED <<runs, input, produced, after, in_q, mid_q, out_q, sent, dcs,
                   resolver, contents, content_artifacts, remote_artifacts, repoVars, repairVars>>

\* Lines 158-164: the batch's entries other than the sentinel are put on
\* out_q in order.
SaverPut(r) ==
    /\ r \in runs
    /\ saver[r].pc = "put"
    /\ LoopFree(r)
    /\ LET items == NonNone(saver[r].declarative_content_list)
           i == saver[r].next
       IN  /\ out_q' = [out_q EXCEPT ![r] = Append(@, items[i])]
           /\ saver' = [saver EXCEPT ![r] =
                  IF i < Len(items) THEN [@ EXCEPT !.next = i + 1] ELSE AfterPuts(@)]
    /\ UNCHANGED <<runs, input, produced, after, in_q, mid_q, sent, dcs, resolver,
                   contents, content_artifacts, remote_artifacts, repoVars, repairVars>>

\* Line 165: await out_q.put(None).
SaverFinal(r) ==
    /\ r \in runs
    /\ saver[r].pc = "final"
    /\ LoopFree(r)
    /\ out_q' = [out_q EXCEPT ![r] = Append(@, None)]
    /\ saver' = [saver EXCEPT ![r].pc = "done"]
    /\ UNCHANGED <<runs, input, produced, after, in_q, mid_q, sent, dcs, resolver,
                   contents, content_artifacts, remote_artifacts, repoVars, repairVars>>

(***************************************************************************)
(* Specifications of the pipeline                                          *)
(***************************************************************************)
ResolverInit ==
    [pc |-> "loop", declarative_content_list |-> <<>>, shutdown |-> FALSE,
     content_q_by_type |-> <<>>, queried |-> <<>>, next |-> 1, error |-> ""]

SaverInit ==
    [pc |-> "loop", declarative_content_list |-> <<>>, shutdown |-> FALSE,
     content_artifact_bulk |-> <<>>, remote_artifact_bulk |-> <<>>,
     remote_artifact_map |-> EmptyMap, tx |-> NoTx,
     batch_in |-> [i \in {} |-> None], next |-> 1, error |-> ""]

\* The content units that exist, and an id that names no content unit.
ContentIds == {"X", "Y"}
Unknown == "Z"

NoCall == [op |-> "none"]

RepoIdle ==
    /\ versions = {}
    /\ next_version = 0
    /\ outcome = ""
    /\ call = NoCall
    /\ assigned = {}
    /\ timestamp_of_interest = [c \in ContentIds |-> 0]
    /\ txs = <<>>

\* No repair is running.
RepairIdle ==
    /\ query_set = <<>>
    /\ file = <<>>
    /\ repair = [pc |-> "idle"]
    /\ tasks = <<>>
    /\ reports = [missing |-> 0, corrupted |-> 0, repaired |-> 0,
                  closed |-> [missing |-> 0, corrupted |-> 0, repaired |-> 0]]

\* The pipeline runs rs, each over an input of at most n items of descs, on a
\* store that holds the rows of the contents in seeds.  With queued, the
\* upstream stage has put every item and has only the sentinel left to put.
PipeInit(rs, n, descs, seedsets, queued) ==
    /\ runs = rs
    /\ input \in [Runs -> SeqsUpTo(descs, n)]
    /\ \A r \in Runs \ rs : input[r] = <<>>
    /\ produced = [r \in Runs |-> IF queued THEN Len(input[r]) ELSE 0]
    /\ after = [r \in Runs |-> FALSE]
    /\ in_q = [r \in Runs |-> IF queued THEN [i \in DOMAIN input[r] |-> i] ELSE <<>>]
    /\ mid_q = [r \in Runs |-> <<>>]
    /\ out_q = [r \in Runs |-> <<>>]
    /\ sent = [r \in Runs |-> <<>>]
    /\ dcs = [r \in Runs |-> [i \in DOMAIN input[r] |-> Candidate(input[r][i])]]
    /\ resolver = [r \in Runs |-> ResolverInit]
    /\ saver = [r \in Runs |-> SaverInit]
    /\ \E seeds \in seedsets :
        /\ contents = {SeedContent(d) : d \in seeds}
        /\ content_artifacts = UNION {SeedContentArtifacts(d) : d \in seeds}
        /\ remote_artifacts = UNION {SeedRemoteArtifacts(d) : d \in seeds}
    /\ RepoIdle
    /\ RepairIdle

PipeNext ==
    \E r \in Runs :
        \/ UpstreamPut(r)
        \/ ResolverDrain(r)
        \/ ResolverQuery(r)
        \/ ResolverPut(r)
        \/ ResolverFinal(r)
        \/ SaverDrain(r)
        \/ SaverSave(r)
        \/ SaverBulkCreateCA(r)
        \/ SaverBulkCreateRA(r)
        \/ SaverFail(r)
        \/ SaverPut(r)
        \/ SaverFinal(r)

\* One pipeline run, every batching of its input, any initial store.
Init == PipeInit({1}, MaxLen, Descs, SUBSET Descs, FALSE)
Next == PipeNext
Spec == Init /\ [][Next]_vars

\* One pipeline run over an item with a natural key and one without.
KeylessDescs == {1, 4}
KeylessInit == PipeInit({1}, MaxLen, KeylessDescs, SUBSET KeylessDescs, FALSE)
SpecKeyless == KeylessInit /\ [][Next]_vars

\* Two pipeline runs over items 1 and 2, racing on an empty store.
RaceInit == PipeInit({1, 2}, RaceLen, {1, 2}, {{}}, TRUE)
SpecRace == RaceInit /\ [][Next]_vars

(***************************************************************************)
(* Repository versions (pulpcore/app/tasks/repository.py).  A version is   *)
(* [number, complete, content]; tasks on one repository run one at a time. *)
(***************************************************************************)
MaxVersions == 4     \* add_and_remove is not called once this number is reached

Star == "*"

Complete(vs) == {v \in vs : v.complete}

\* Repository.latest_version(): the complete version with the highest number.
latest_version(vs) ==
    IF Complete(vs) = {} THEN {}
    ELSE {v \in Complete(vs) : \A w \in Complete(vs) : w.number <= v.number}

\* Mutant of OnlyCompleteVersion: the count compared with < instead of <=.
NoCompleteVersion(vs) == Cardinality(Complete(vs)) < 1

\* Mutant of OnlyCompleteVersion: the check never fires.
NeverOnlyVersion(vs) == FALSE

\* Line 46: version.repository.versions.complete().count() <= 1.
OnlyCompleteVersion(vs) == Cardinality(Complete(vs)) <= 1

\* Mutant of VersionDelete: the content of the deleted version is also added
\* to every version that follows it.
DeleteIntoSuccessors(vs, version) ==
    {IF v.number > version.number
     THEN [v EXCEPT !.content = @ \cup version.content] ELSE v : v \in vs \ {version}}

\* Mutant of VersionDelete: the version with the highest number is not deleted.
DeleteUnlessNewest(vs, version) ==
    IF \A w \in vs : w.number <= version.number THEN vs ELSE vs \ {version}

\* Line 60, RepositoryVersion.delete(): the version's row goes, its changes
\* are squashed into its successor; the content of the others stays.
VersionDelete(vs, version) == vs \ {version}

\* Mutant of delete_version: as the docstring has it, DoesNotExist is raised
\* for a version that is not there.
delete_version_raising(pk) ==
    /\ IF ~\E v \in versions : v.number = pk
       THEN /\ outcome' = "DoesNotExist"
            /\ versions' = versions
       ELSE LET version == CHOOSE v \in versions : v.number = pk
            IN  IF OnlyCompleteVersion(versions)
                THEN /\ outcome' = "ValidationError"
                     /\ versions' = versions
                ELSE /\ outcome' = "deleted"
                     /\ versions' = VersionDelete(versions, version)
    /\ call' = [op |-> "delete_version", pk |-> pk]
    /\ UNCHANGED <<next_version, assigned, timestamp_of_interest, txs, pipeVars,
                   repairVars>>

\* Lines 39-60.
delete_version(pk) ==
    /\ IF ~\E v \in versions : v.number = pk
       THEN /\ outcome' = "not found"
            /\ versions' = versions
       ELSE LET version == CHOOSE v \in versions : v.number = pk
            IN  IF OnlyCompleteVersion(versions)
                THEN /\ outcome' = "ValidationError"
                     /\ versions' = versions
                ELSE /\ outcome' = "deleted"
                     /\ versions' = VersionDelete(versions, version)
    /\ call' = [op |-> "delete_version", pk |-> pk]
    /\ UNCHANGED <<next_version, assigned, timestamp_of_interest, txs, pipeVars,
                   repairVars>>

\* Mutant of remove_units: '*' is kept as it is and names no content.
StarKept(vs, remove_content_units) == remove_content_units

\* Lines 229-234: '*' stands for the content of the latest version.
remove_units(vs, remove_content_units) ==
    IF Star \in remove_content_units
    THEN IF latest_version(vs) # {}
         THEN (CHOOSE v \in latest_version(vs) : TRUE).content
         ELSE {}
    ELSE remove_content_units

\* Mutant of new_version_content: base_version is ignored.
FromLatest(vs, base_version) ==
    IF latest_version(vs) # {}
    THEN (CHOOSE v \in latest_version(vs) : TRUE).content
    ELSE {}

\* Repository.new_version(base_version): the new version starts from the
\* content of base_version, or of the latest version when none is given.
new_version_content(vs, base_version) ==
    IF base_version # {} THEN (CHOOSE v \in base_version : TRUE).content
    ELSE IF latest_version(vs) # {}
    THEN (CHOOSE v \in latest_version(vs) : TRUE).content
    ELSE {}

\* Mutant of remove_then_add: add_content, then remove_content.
add_then_remove(content, remove_ids, add_ids) == (content \cup add_ids) \ remove_ids

\* Lines 236-238: remove_content, then add_content.
remove_then_add(content, remove_ids, add_ids) == (content \ remove_ids) \cup add_ids

\* Mutant of new_version_number: one more than the highest number that exists.
HighestPlusOne(vs, next) ==
    IF vs = {} THEN 0
    ELSE (CHOOSE v \in vs : \A w \in vs : w.number <= v.number).number + 1

\* Repository.new_version(): the new version takes the repository's
\* next_version counter, which only ever grows.
new_version_number(vs, next) == next

\* Lines 222-238.  base_version_pk = -1 stands for no base version; the get
\* of a base version that does not exist raises DoesNotExist.
add_and_remove(add_content_units, remove_content_units, base_version_pk) ==
    /\ next_version < MaxVersions
    /\ IF base_version_pk # -1 /\ ~\E v \in versions : v.number = base_version_pk
       THEN /\ outcome' = "DoesNotExist"
            /\ UNCHANGED <<versions, next_version, assigned>>
       ELSE LET base_version == {v \in versions : v.number = base_version_pk}
                remove_ids == remove_units(versions, remove_content_units)
                number == new_version_number(versions, next_version)
            IN  /\ versions' = versions \cup
                       {[number |-> number, complete |-> TRUE,
                         content |-> remove_then_add(
                                         new_version_content(versions, base_version),
                                         remove_ids, add_content_units)]}
                /\ next_version' = next_version + 1
                /\ assigned' = assigned \cup {number}
                /\ outcome' = "created"
    /\ call' = [op |-> "add_and_remove", add_content_units |-> add_content_units,
                remove_content_units |-> remove_content_units,
                base_version_pk |-> base_version_pk]
    /\ UNCHANGED <<timestamp_of_interest, txs, pipeVars, repairVars>>

PipeIdle ==
    /\ runs = {}
    /\ input = [r \in Runs |-> <<>>]
    /\ produced = [r \in Runs |-> 0]
    /\ after = [r \in Runs |-> FALSE]
    /\ in_q = [r \in Runs |-> <<>>]
    /\ mid_q = [r \in Runs |-> <<>>]
    /\ out_q = [r \in Runs |-> <<>>]
    /\ sent = [r \in Runs |-> <<>>]
    /\ dcs = [r \in Runs |-> <<>>]
    /\ resolver = [r \in Runs |-> ResolverInit]
    /\ saver = [r \in Runs |-> SaverInit]
    /\ contents = {}
    /\ content_artifacts = {}
    /\ remote_artifacts = {}

\* A new repository: version 0, complete and empty.
RepoInit ==
    /\ versions = {[number |-> 0, complete |-> TRUE, content |-> {}]}
    /\ next_version = 1
    /\ outcome = ""
    /\ call = NoCall
    /\ assigned = {0}
    /\ timestamp_of_interest = [c \in ContentIds |-> 0]
    /\ txs = <<>>
    /\ RepairIdle
    /\ PipeIdle

DeleteVersion == \E pk \in 0..MaxVersions : delete_version(pk)

AddAndRemove ==
    \E add_content_units \in SUBSET ContentIds,
       remove_content_units \in (SUBSET ContentIds) \cup {{Star}},
       base_version_pk \in -1..MaxVersions :
        add_and_remove(add_content_units, remove_content_units, base_version_pk)

RepoNext == DeleteVersion \/ AddAndRemove

SpecRepo == RepoInit /\ [][RepoNext]_vars

\* A repository whose version 1 was left in progress by an add_and_remove
\* that was interrupted inside line 236-238, with any content.
InProgressInit ==
    /\ \E content \in SUBSET ContentIds :
           versions = {[number |-> 0, complete |-> TRUE, content |-> {}],
                       [number |-> 1, complete |-> FALSE, content |-> content]}
    /\ next_version = 2
    /\ outcome = ""
    /\ call = NoCall
    /\ assigned = {0, 1}
    /\ timestamp_of_interest = [c \in ContentIds |-> 0]
    /\ txs = <<>>
    /\ RepairIdle
    /\ PipeIdle

SpecInProgress == InProgressInit /\ [][RepoNext]_vars

(***************************************************************************)
(* The add/remove request (pulpcore/app/serializers/repository.py,         *)
(* RepositoryAddRemoveContentSerializer): both lists are validated, and a  *)
(* valid request runs add_and_remove.                                      *)
(***************************************************************************)
MaxTouches == 2      \* no request is made once a timestamp has reached this value

\* The ids a request may name.
RequestIds == {"X", Unknown}

Highest(ts) == CHOOSE n \in {ts[c] : c \in ContentIds} : \A c \in ContentIds : ts[c] <= n

\* QuerySet.touch(): timestamp_of_interest of the rows becomes the time of
\* the call, in a transaction of its own.
touch(ts, pks) == [c \in ContentIds |-> IF c \in pks THEN Highest(ts) + 1 ELSE ts[c]]

\* raise_for_unknown_content_units(existing_content_units, content_units).
unknown_content_units(existing_content_units, content_units) ==
    content_units \ existing_content_units

\* Lines 531-543; the result is the error raised, "" when none.
validate_add_content_units(value) ==
    IF unknown_content_units(value \cap ContentIds, value) # {}
    THEN "ValidationError" ELSE ""

\* Lines 545-559.
validate_remove_content_units(value) ==
    IF Star \in value
    THEN IF Cardinality(value) > 1 THEN "ValidationError" ELSE ""
    ELSE IF unknown_content_units(value \cap ContentIds, value) # {}
         THEN "ValidationError" ELSE ""

\* A request: validate_add_content_units touches the content units that
\* exist (line 539) before it looks for unknown ones (line 541); a request
\* with no error runs the task on the latest version.
Modify(add_content_units, remove_content_units) ==
    /\ next_version < MaxVersions
    /\ Highest(timestamp_of_interest) < MaxTouches
    /\ timestamp_of_interest' = touch(timestamp_of_interest, add_content_units \cap ContentIds)
    /\ call' = [op |-> "modify", add_content_units |-> add_content_units,
                remove_content_units |-> remove_content_units]
    /\ IF \/ validate_add_content_units(add_content_units) # ""
          \/ validate_remove_content_units(remove_content_units) # ""
       THEN /\ outcome' = "ValidationError"
            /\ UNCHANGED <<versions, next_version, assigned>>
       ELSE LET number == new_version_number(versions, next_version)
            IN  /\ versions' = versions \cup
                       {[number |-> number, complete |-> TRUE,
                         content |-> remove_then_add(
                                         new_version_content(versions, {}),
                                         remove_units(versions, remove_content_units),
                                         add_content_units)]}
                /\ next_version' = next_version + 1
                /\ assigned' = assigned \cup {number}
                /\ outcome' = "created"
    /\ UNCHANGED <<txs, pipeVars, repairVars>>

ModifyRequest ==
    \E add_content_units \in SUBSET RequestIds,
       remove_content_units \in (SUBSET RequestIds) \cup {{Star}, {Star, "X"}} :
        Modify(add_content_units, remove_content_units)

ModifyNext == ModifyRequest

SpecModify == RepoInit /\ [][ModifyNext]_vars

(***************************************************************************)
(* Two delete_version calls at once.  Each runs in its own transaction     *)
(* (line 39); a statement reads what is committed when it runs, and the    *)
(* delete of line 60, the last statement, is committed with the end of the *)
(* block.  The calls delete different rows, so neither waits for the other.*)
(***************************************************************************)
Txs == {1, 2}

\* Lines 40-44: the get of the version.
TxGet(t) ==
    /\ txs[t].pc = "get"
    /\ txs' = [txs EXCEPT ![t] =
                  IF ~\E v \in versions : v.number = txs[t].pk
                  THEN [@ EXCEPT !.pc = "returned", !.outcome = "not found"]
                  ELSE [@ EXCEPT !.pc = "count"]]
    /\ UNCHANGED <<versions, next_version, outcome, call, assigned,
                   timestamp_of_interest, pipeVars, repairVars>>

\* Lines 46-52: the count of the complete versions.
TxCount(t) ==
    /\ txs[t].pc = "count"
    /\ txs' = [txs EXCEPT ![t] =
                  IF OnlyCompleteVersion(versions)
                  THEN [@ EXCEPT !.pc = "raised", !.outcome = "ValidationError"]
                  ELSE [@ EXCEPT !.pc = "delete"]]
    /\ UNCHANGED <<versions, next_version, outcome, call, assigned,
                   timestamp_of_interest, pipeVars, repairVars>>

\* Line 60 and the end of the transaction.
TxDelete(t) ==
    /\ txs[t].pc = "delete"
    /\ versions' = IF \E v \in versions : v.number = txs[t].pk
                   THEN VersionDelete(versions,
                                      CHOOSE v \in versions : v.number = txs[t].pk)
                   ELSE versions
    /\ txs' = [txs EXCEPT ![t] = [@ EXCEPT !.pc = "returned", !.outcome = "deleted"]]
    /\ UNCHANGED <<next_version, outcome, call, assigned, timestamp_of_interest,
                   pipeVars, repairVars>>

DeleteRaceNext ==
    \/ \E t \in Txs : TxGet(t)
    \/ \E t \in Txs : TxCount(t)
    \/ \E t \in Txs : TxDelete(t)

\* A repository of two or three complete versions, and two calls of
\* delete_version with any pk.
DeleteRaceInit ==
    /\ \E n \in {2, 3}, content \in [0..2 -> SUBSET ContentIds] :
           /\ versions = {[number |-> k, complete |-> TRUE, content |-> content[k]] :
                              k \in 0..(n - 1)}
           /\ content[0] = {}
           /\ n = 2 => content[2] = {}
           /\ next_version = n
           /\ assigned = 0..(n - 1)
    /\ \E pk \in [Txs -> 0..3] :
           txs = [t \in Txs |-> [pc |-> "get", pk |-> pk[t], outcome |-> ""]]
    /\ outcome = ""
    /\ call = NoCall
    /\ timestamp_of_interest = [c \in ContentIds |-> 0]
    /\ RepairIdle
    /\ PipeIdle

SpecDeleteRace == DeleteRaceInit /\ [][DeleteRaceNext]_vars

(***************************************************************************)
(* Artifact repair (pulpcore/app/tasks/repository.py, lines 63-163).       *)
(* query_set[k] is a ContentArtifact: [artifact, remotes], remotes being   *)
(* what each of its RemoteArtifacts serves, in stored order: "good" (the   *)
(* bytes of the recorded sha256), "bad" (other bytes) or "fail" (the       *)
(* download raises).  file[a] is "ok", "corrupt" or "missing".  The        *)
(* coroutines run on one event loop and interleave at their awaits.        *)
(***************************************************************************)
MaxArtifacts == 6    \* ContentArtifacts in scope

\* Line 157: the number of concurrent repair tasks.
RepairCap == 5

\* Mutant of cap_reached: a repair task is always started at once.
cap_never_reached(pending) == FALSE

\* Line 157: len(pending) >= 5.
cap_reached(pending) == Cardinality(pending) >= RepairCap

\* The ContentArtifacts of the store: two with an Artifact of their own, one
\* without an Artifact.
StoredContentArtifacts ==
    <<[content |-> "X", artifact |-> 1],
      [content |-> "Y", artifact |-> 2],
      [content |-> "Y", artifact |-> None]>>

\* A stored file is the bytes of the recorded sha256 ("ok"), other bytes
\* ("corrupt"), not there ("missing"), or there and failing to be read with an
\* error other than FileNotFoundError ("unreadable").
FileStates == {"ok", "corrupt", "missing", "unreadable"}

\* What the RemoteArtifacts of a ContentArtifact do, in stored order: "good"
\* and "bad" downloads succeed, "fail" raises in downloader.run(), "raise"
\* raises while the downloader is obtained (lines 77-78).
RemoteLists ==
    {<<>>, <<"good">>, <<"good", "bad">>, <<"bad", "good">>, <<"fail", "bad">>,
     <<"raise">>}

NoTask == [pc |-> "none", remote |-> 0, attempts |-> 0, result |-> FALSE]

\* Lines 126-132: the three ProgressReports, entered and not yet left.
NoReports ==
    [missing |-> 0, corrupted |-> 0, repaired |-> 0,
     closed |-> [missing |-> 0, corrupted |-> 0, repaired |-> 0]]

\* Mutant of aincrement: the counter is raised by two.
aincrement_twice(rep, name) == [rep EXCEPT ![name] = @ + 2]

\* Lines 140, 153, 92: ProgressReport.aincrement().
aincrement(rep, name) == [rep EXCEPT ![name] = @ + 1]

\* Mutant of aexit: the reports are left open.
aexit_open(rep) == rep

\* Lines 126-132: the async with statement leaves each of its three reports
\* once, however its body ends.
aexit(rep) == [rep EXCEPT !.closed = [n \in DOMAIN @ |-> @[n] + 1]]

\* Mutant of in_scope: the ContentArtifacts of the contents of subset.
in_subset(subset, remotes) ==
    SelectSeq([k \in DOMAIN StoredContentArtifacts |->
                  [content |-> StoredContentArtifacts[k].content,
                   artifact |-> StoredContentArtifacts[k].artifact,
                   remotes |-> IF k \in DOMAIN remotes THEN remotes[k] ELSE <<>>]],
              LAMBDA ca : ca.artifact # None /\ ca.content \in subset.content)

\* Lines 117-124: the ContentArtifacts that have an Artifact and whose content
\* is in subset; with no subset, or one that holds nothing, the subset is
\* every content.
in_scope(subset, remotes) ==
    LET effective == IF ~subset.given \/ subset.content = {}
                     THEN ContentIds ELSE subset.content
    IN  SelectSeq([k \in DOMAIN StoredContentArtifacts |->
                      [content |-> StoredContentArtifacts[k].content,
                       artifact |-> StoredContentArtifacts[k].artifact,
                       remotes |-> IF k \in DOMAIN remotes THEN remotes[k] ELSE <<>>]],
                  LAMBDA ca : ca.artifact # None /\ ca.content \in effective)

\* No run came before this one.
NoEarlier == [run |-> FALSE, completed |-> FALSE, verify_checksums |-> FALSE,
              repaired |-> {}]

\* Lines 113-116: the locals at the start of the iteration; checks records
\* what the checks of each ContentArtifact found, earlier what a run before
\* this one did.
StartScan(subset, verify_checksums) ==
    [pc |-> IF query_set = <<>> THEN "gather" ELSE "exists",
     i |-> 1, valid |-> TRUE, pending |-> {},
     verify_checksums |-> verify_checksums, subset |-> subset, checks |-> <<>>,
     earlier |-> NoEarlier]

\* Lines 115-134, with every file in one of the states of files, every
\* ContentArtifact having its own Artifact and one of the lists in remotes.
RepairInit(n, files, remotes, flags) ==
    /\ \E f \in files, rs \in remotes :
           /\ file = [a \in 1..n |-> f]
           /\ query_set = [k \in 1..n |->
                              [content |-> "X", artifact |-> k, remotes |-> rs]]
    /\ \E verify_checksums \in flags :
           repair = StartScan([given |-> FALSE, content |-> {}], verify_checksums)
    /\ tasks = [k \in 1..n |-> NoTask]
    /\ reports = NoReports
    /\ RepoIdle
    /\ PipeIdle

\* repair_version(v) for a version with any content set, and
\* repair_all_artifacts(), over the stored ContentArtifacts, for every state
\* of their files and every behaviour of their RemoteArtifacts.
ScopeInit ==
    /\ file \in [{1, 2} -> FileStates]
    /\ \E rs \in [{1, 2} -> RemoteLists],
          subset \in {[given |-> FALSE, content |-> {}]}
                        \cup {[given |-> TRUE, content |-> c] : c \in SUBSET ContentIds} :
           /\ query_set = in_scope(subset, rs)
           /\ \E verify_checksums \in BOOLEAN :
                  repair = StartScan(subset, verify_checksums)
    /\ tasks = [k \in DOMAIN query_set |-> NoTask]
    /\ reports = NoReports
    /\ RepoIdle
    /\ PipeIdle

\* Line 135: the next ContentArtifact of the iteration, or line 163 after the last.
Advance(r) ==
    [r EXCEPT !.i = @ + 1,
              !.pc = IF r.i + 1 > Len(query_set) THEN "gather" ELSE "exists"]

\* Line 162: pending.add(asyncio.ensure_future(_repair_ca(...))).
ensure_future(ts, k) ==
    [ts EXCEPT ![k] = [pc |-> "start", remote |-> 1, attempts |-> 0, result |-> FALSE]]

\* Lines 156-162 once the ContentArtifact is known to be invalid, up to the
\* await of line 158.
admit(r) ==
    IF cap_reached(r.pending)
    THEN /\ repair' = [r EXCEPT !.pc = "wait"]
         /\ UNCHANGED tasks
    ELSE /\ repair' = Advance([r EXCEPT !.pending = @ \cup {r.i}])
         /\ tasks' = ensure_future(tasks, r.i)

\* Mutant of verifies: every file that exists is hashed.
verifies_always(verify_checksums) == TRUE

\* Line 142: elif verify_checksums.
verifies(verify_checksums) == verify_checksums

\* Lines 136-141 and 156-162: storage.exists, the missing counter.
ScanExists ==
    /\ repair.pc = "exists"
    /\ LET artifact == query_set[repair.i].artifact
           valid == file[artifact] # "missing"
           checked == [repair EXCEPT !.valid = valid,
                           !.checks = Append(@, [exists |-> file[artifact],
                                                 verify |-> "not verified"])]
       IN  IF ~valid
           THEN /\ reports' = aincrement(reports, "missing")
                /\ admit(checked)
           ELSE /\ repair' = IF verifies(repair.verify_checksums)
                             THEN [checked EXCEPT !.pc = "verify"]
                             ELSE Advance(checked)
                /\ UNCHANGED <<tasks, reports>>
    /\ UNCHANGED <<query_set, file, pipeVars, repoVars>>

\* Lines 99-110: the digest of the stored file against the recorded sha256;
\* a file that is gone gives False.
verify_artifact(artifact) == file[artifact] = "ok"

\* Lines 142-154 and 156-162: _verify_artifact, the corrupted counter.  An
\* error of the read other than FileNotFoundError leaves the function, the
\* loop and the async with.
ScanVerify ==
    /\ repair.pc = "verify"
    /\ LET artifact == query_set[repair.i].artifact
           valid == verify_artifact(artifact)
           checked == [repair EXCEPT !.valid = valid,
                           !.checks[repair.i].verify = file[artifact]]
       IN  IF file[artifact] = "unreadable"
           THEN /\ repair' = [checked EXCEPT !.pc = "raised"]
                /\ reports' = aexit(reports)
                /\ UNCHANGED tasks
           ELSE IF ~valid
           THEN /\ reports' = aincrement(reports, "corrupted")
                /\ admit(checked)
           ELSE /\ repair' = Advance(checked)
                /\ UNCHANGED <<tasks, reports>>
    /\ UNCHANGED <<query_set, file, pipeVars, repoVars>>

\* The tasks of pending that are done, with a result or with an exception.
Finished(pending) == {k \in pending : tasks[k].pc \in {"finished", "raised"}}

Raised(pending) == {k \in pending : tasks[k].pc = "raised"}

\* Lines 158-162: asyncio.wait returns once a pending task is done, with every
\* task that is done by then; the others stay pending.  gather(*done) raises
\* the exception of a task that raised.
ScanWait ==
    /\ repair.pc = "wait"
    /\ Finished(repair.pending) # {}
    /\ LET done == Finished(repair.pending)
           pending == repair.pending \ done
       IN  IF Raised(done) # {}
           THEN /\ repair' = [repair EXCEPT !.pending = pending, !.pc = "raised"]
                /\ reports' = aexit(reports)
                /\ UNCHANGED tasks
           ELSE /\ repair' = Advance([repair EXCEPT !.pending = pending \cup {repair.i}])
                /\ tasks' = ensure_future(tasks, repair.i)
                /\ UNCHANGED reports
    /\ UNCHANGED <<query_set, file, pipeVars, repoVars>>

\* Line 163: asyncio.gather(*pending) returns when every pending task is
\* done, and raises as soon as one of them has raised; then the reports are
\* left.
ScanGather ==
    /\ repair.pc = "gather"
    /\ Raised(repair.pending) # {} \/ Finished(repair.pending) = repair.pending
    /\ repair' = [repair EXCEPT !.pc =
                     IF Raised(repair.pending) # {} THEN "raised" ELSE "done"]
    /\ reports' = aexit(reports)
    /\ UNCHANGED <<query_set, file, tasks, pipeVars, repoVars>>

\* Lines 64-66: are there RemoteArtifacts at all.
RepairStart(k) ==
    /\ tasks[k].pc = "start"
    /\ tasks' = [tasks EXCEPT ![k].pc =
                    IF query_set[k].remotes = <<>> THEN "delete" ELSE "download"]
    /\ UNCHANGED <<query_set, file, repair, reports, pipeVars, repoVars>>

\* Mutant of escapes: there is no try around downloader.run().
escapes_always(kind) == kind \in {"raise", "fail"}

\* Lines 77-82: an exception of lines 77-78 leaves _repair_ca, one of
\* downloader.run() is caught and logged.
escapes(kind) == kind = "raise"

\* Mutant of digest_matches: every download is taken.
digest_unchecked(kind) == TRUE

\* Line 84: dl_result.artifact_attributes["sha256"] == content_artifact.artifact.sha256.
digest_matches(kind) == kind = "good"

\* Lines 76-84: one source; after the last one line 94 is reached.
RepairDownload(k) ==
    /\ tasks[k].pc = "download"
    /\ LET remote == tasks[k].remote
           kind == query_set[k].remotes[remote]
       IN  tasks' = [tasks EXCEPT ![k] =
                       IF escapes(kind)
                       THEN [@ EXCEPT !.pc = "raised"]
                       ELSE IF kind # "fail" /\ digest_matches(kind)
                       THEN [@ EXCEPT !.pc = "replace", !.attempts = @ + 1]
                       ELSE IF remote < Len(query_set[k].remotes)
                       THEN [@ EXCEPT !.remote = remote + 1, !.attempts = @ + 1]
                       ELSE [@ EXCEPT !.pc = "delete", !.attempts = @ + 1]]
    /\ UNCHANGED <<query_set, file, repair, reports, pipeVars, repoVars>>

\* Mutant of delete_file: the file is left where it is.
keep_file(f, artifact) == f

\* Lines 73, 87, 95: artifact.file.delete(save=False); deleting a file that is
\* not there does nothing.
delete_file(f, artifact) == [f EXCEPT ![artifact] = "missing"]

\* Mutant of save_file: the write stops short of the whole download.
save_file_short(f, artifact, kind) == [f EXCEPT ![artifact] = "corrupt"]

\* Lines 88-90: artifact.file.save(filename, src, save=False) writes the
\* bytes of the download.
save_file(f, artifact, kind) ==
    [f EXCEPT ![artifact] = IF kind = "good" THEN "ok" ELSE "corrupt"]

\* Line 87: the stored file is deleted before the download is saved.
RepairReplace(k) ==
    /\ tasks[k].pc = "replace"
    /\ file' = delete_file(file, query_set[k].artifact)
    /\ tasks' = [tasks EXCEPT ![k].pc = "save"]
    /\ UNCHANGED <<query_set, repair, reports, pipeVars, repoVars>>

\* Mutant of after_save: the loop goes on to the next source.
after_save_go_on(task, remotes) ==
    IF task.remote < Len(remotes)
    THEN [task EXCEPT !.pc = "download", !.remote = @ + 1]
    ELSE [task EXCEPT !.pc = "finished", !.result = TRUE]

\* Line 93: return True leaves the loop over the sources.
after_save(task, remotes) == [task EXCEPT !.pc = "finished", !.result = TRUE]

\* Lines 88-93: the download is saved, repaired is incremented, True returned.
RepairSave(k) ==
    /\ tasks[k].pc = "save"
    /\ file' = save_file(file, query_set[k].artifact,
                         query_set[k].remotes[tasks[k].remote])
    /\ reports' = aincrement(reports, "repaired")
    /\ tasks' = [tasks EXCEPT ![k] = after_save(@, query_set[k].remotes)]
    /\ UNCHANGED <<query_set, repair, pipeVars, repoVars>>

\* Lines 67-74 and 94-96: the file of the unrepairable artifact is deleted,
\* False returned.
RepairDelete(k) ==
    /\ tasks[k].pc = "delete"
    /\ file' = delete_file(file, query_set[k].artifact)
    /\ tasks' = [tasks EXCEPT ![k] = [@ EXCEPT !.pc = "finished", !.result = FALSE]]
    /\ UNCHANGED <<query_set, repair, reports, pipeVars, repoVars>>

\* The run is over, or its process is stopped wherever it is, its tasks with
\* it; then repair_version or repair_all_artifacts is called again with the
\* same subset.  The store and the files are as the first run left them.
Rerun ==
    /\ ~repair.earlier.run
    /\ \E verify_checksums \in BOOLEAN :
           repair' = [StartScan(repair.subset, verify_checksums) EXCEPT
                         !.earlier =
                             [run |-> TRUE,
                              completed |-> repair.pc = "done",
                              verify_checksums |-> repair.verify_checksums,
                              repaired |-> {query_set[k].artifact :
                                               k \in {l \in DOMAIN tasks :
                                                          /\ tasks[l].pc = "finished"
                                                          /\ tasks[l].result}}]]
    /\ tasks' = [k \in DOMAIN tasks |-> NoTask]
    /\ reports' = NoReports
    /\ UNCHANGED <<query_set, file, pipeVars, repoVars>>

RepairNext ==
    \/ ScanExists
    \/ ScanVerify
    \/ ScanWait
    \/ ScanGather
    \/ \E k \in DOMAIN tasks : RepairStart(k)
    \/ \E k \in DOMAIN tasks : RepairDownload(k)
    \/ \E k \in DOMAIN tasks : RepairReplace(k)
    \/ \E k \in DOMAIN tasks : RepairSave(k)
    \/ \E k \in DOMAIN tasks : RepairDelete(k)

\* A scope of MaxArtifacts invalid artifacts, alike in their file and sources.
CapInit ==
    RepairInit(MaxArtifacts, {"missing", "corrupt"},
               {<<>>, <<"good">>, <<"fail", "bad">>}, {TRUE})

SpecRepairCap == CapInit /\ [][RepairNext]_vars

\* A scope of MaxArtifacts missing files whose sources all fail or all raise,
\* so that the wait of line 158 is reached and returns tasks that raised.
WaitInit ==
    RepairInit(MaxArtifacts, {"missing"}, {<<"raise">>, <<"fail">>}, {FALSE})

\* Two ContentArtifacts in scope that reference one Artifact, for every state
\* of its file and every behaviour of their RemoteArtifacts.
SharedInit ==
    /\ \E rs \in [{1, 2} -> RemoteLists] :
           query_set = <<[content |-> "X", artifact |-> 1, remotes |-> rs[1]],
                         [content |-> "Y", artifact |-> 1, remotes |-> rs[2]]>>
    /\ file \in [{1} -> FileStates]
    /\ \E verify_checksums \in BOOLEAN :
           repair = StartScan([given |-> FALSE, content |-> {}], verify_checksums)
    /\ tasks = [k \in {1, 2} |-> NoTask]
    /\ reports = NoReports
    /\ RepoIdle
    /\ PipeIdle

\* A repair and a second one after it.
RerunNext == RepairNext \/ Rerun
SpecRerun == (ScopeInit \/ WaitInit) /\ [][RerunNext]_vars

\* The repair of ContentArtifacts that share an Artifact.
SpecRepairShared == (SharedInit \/ WaitInit) /\ [][RepairNext]_vars

\* The repair of a version or of everything.
SpecRepair == (ScopeInit \/ WaitInit) /\ [][RepairNext]_vars

\* The event loop runs every coroutine that can go on.
SpecRepairFair ==
    (ScopeInit \/ WaitInit) /\ [][RepairNext]_vars /\ WF_vars(RepairNext)

(***************************************************************************)
(* Properties of the pipeline stages                                       *)
(***************************************************************************)
Count(seq, x) == Cardinality({k \in DOMAIN seq : seq[k] = x})

\* What has arrived on the first stage's input queue so far.
Arrived(r) ==
    [k \in 1..produced[r] |-> IF k <= Len(input[r]) THEN k ELSE None]

\* The entries of seq in front of its first sentinel.
BeforeSentinel(seq) ==
    {seq[k] : k \in {j \in DOMAIN seq : \A h \in 1..j : seq[h] # None}}

\* C1 (as claimed): every stage puts at most one sentinel on its output queue,
\* and exactly one by the time it returns.
C1_SentinelExactlyOnce ==
    \A r \in runs :
        /\ Count(sent[r], None) <= 1
        /\ Count(out_q[r], None) <= 1
        /\ resolver[r].pc = "done" => Count(sent[r], None) = 1
        /\ saver[r].pc = "done" => Count(out_q[r], None) = 1

\* C2 (as claimed): no stage puts an item twice, and a stage that has stopped
\* while the store answered every operation has put every item that arrived
\* on its input queue in front of the sentinel.
C2_NoItemLostOrDuplicated ==
    \A r \in runs :
        /\ \A i \in DOMAIN input[r] : Count(sent[r], i) <= 1 /\ Count(out_q[r], i) <= 1
        /\ resolver[r].pc \in {"done", "crashed"}
               => BeforeSentinel(Arrived(r)) \subseteq Items(sent[r])
        /\ (saver[r].pc \in {"done", "crashed"} /\ saver[r].error # "DatabaseError")
               => BeforeSentinel(sent[r]) \subseteq Items(out_q[r])

SentinelLast(seq) == \A a, b \in DOMAIN seq : (a < b /\ seq[a] = None) => seq[b] = None

\* C3: on the output queue of either stage no item follows a sentinel, and a
\* stage that has returned put the sentinel last.
C3_SentinelIsLast ==
    \A r \in runs :
        /\ SentinelLast(sent[r])
        /\ SentinelLast(out_q[r])
        /\ resolver[r].pc = "done" => (sent[r] # <<>> /\ sent[r][Len(sent[r])] = None)
        /\ saver[r].pc = "done" => (out_q[r] # <<>> /\ out_q[r][Len(out_q[r])] = None)

\* C3 witness: a saver that took items and the sentinel in one batch has
\* returned.
C3_Witness ==
    /\ saver[1].pc = "done"
    /\ Len(saver[1].declarative_content_list) >= 3
    /\ Len(out_q[1]) >= 3

Position(seq, x) == CHOOSE k \in DOMAIN seq : seq[k] = x /\ \A h \in 1..(k - 1) : seq[h] # x

\* The items of out come in the order in which they stand in inp.
SameOrder(out, inp) ==
    \A a, b \in DOMAIN out :
        (a < b /\ out[a] # None /\ out[b] # None)
            => /\ out[a] \in Range(inp) /\ out[b] \in Range(inp)
               /\ Position(inp, out[a]) < Position(inp, out[b])

\* C4: each stage puts the items in the order in which they arrived on its
\* input queue.
C4_OrderPreserved ==
    \A r \in runs :
        /\ SameOrder(sent[r], Arrived(r))
        /\ SameOrder(out_q[r], sent[r])

\* C4 witness: the saver has forwarded two items that it took in one batch.
C4_Witness ==
    /\ Len(NonNone(out_q[1])) >= 2
    /\ Len(NonNone(saver[1].declarative_content_list)) >= 2

\* The rows the store holds for the saved content with this pk when the
\* content is completely linked.
ExpectedContentArtifacts(pk) ==
    {ContentArtifactOf(pk, da) : da \in Range(Descriptor(DescOf(pk, input)).d_artifacts)}

ExpectedRemoteArtifacts(pk) ==
    {RemoteArtifact(ContentArtifactOf(pk, da), remote_artifact_data(da)) :
        da \in Range(Descriptor(DescOf(pk, input)).d_artifacts)}

\* No row of the store, and no row written by run r's open batch, belongs to
\* a content with this pk.
NoRowsFor(r, pk) ==
    /\ ~\E c \in contents \cup saver[r].tx.contents : c.pk = pk
    /\ ~\E ca \in content_artifacts \cup Range(saver[r].content_artifact_bulk) :
           ca.content = pk
    /\ ~\E ra \in remote_artifacts \cup Range(saver[r].remote_artifact_bulk) :
           ra.content_artifact.content = pk

\* C5: when run r starts after run o has returned, every item of r that o
\* also ingested leaves r's first stage referring to the row o saved, that
\* row is the only stored Content of its natural key, and r writes no
\* Content, ContentArtifact or RemoteArtifact row for the item.
C5_DedupAcrossRuns ==
    \A r \in runs : \A o \in runs \ {r} :
        (after[r] /\ saver[o].pc = "done") =>
            \A i \in Items(sent[r]) :
                (\E j \in DOMAIN input[o] : input[o][j] = input[r][i]) =>
                    /\ dcs[r][i] \in contents
                    /\ dcs[r][i].pk[1] = o
                    /\ Cardinality({c \in contents :
                                       SameEntity(c, Candidate(input[r][i]))}) = 1
                    /\ NoRowsFor(r, <<r, i>>)

\* C5 witness: run 2 ingested item 1 after run 1 had ingested it, and both
\* have returned.
C5_Witness ==
    /\ after[2]
    /\ input[1] = <<1>> /\ input[2] = <<1>>
    /\ saver[1].pc = "done" /\ saver[2].pc = "done"

NewInBatch(r) == {i \in DOMAIN saver[r].batch_in : saver[r].batch_in[i].pk = NoPk}

\* C7: every visible Content has all its ContentArtifact rows, each with its
\* RemoteArtifact; while a batch is being committed and after its commit
\* failed no row of its new items is visible; after its commit succeeded the
\* Content of every new item is visible.
C7_BatchAtomic ==
    /\ \A c \in contents :
           /\ ExpectedContentArtifacts(c.pk) \subseteq content_artifacts
           /\ ExpectedRemoteArtifacts(c.pk) \subseteq remote_artifacts
    /\ \A r \in runs :
           /\ saver[r].pc \in TxPcs \cup {"crashed"} =>
                  \A i \in NewInBatch(r) :
                      /\ ~\E c \in contents : c.pk = <<r, i>>
                      /\ ~\E ca \in content_artifacts : ca.content = <<r, i>>
                      /\ ~\E ra \in remote_artifacts : ra.content_artifact.content = <<r, i>>
           /\ saver[r].pc \in {"put", "final", "done"} =>
                  \A i \in NewInBatch(r) : \E c \in contents : c.pk = <<r, i>>

\* C7 witness: the commit of a batch of two new items failed after the
\* ContentArtifact rows had been written.
C7_Witness ==
    /\ saver[1].pc = "crashed"
    /\ saver[1].error = "DatabaseError"
    /\ Cardinality(NewInBatch(1)) = 2
    /\ saver[1].tx.content_artifacts # {}

\* The DeclarativeArtifact a ContentArtifact was built from.
DeclarativeArtifactOf(ca) ==
    CHOOSE da \in Range(Descriptor(DescOf(ca.content, input)).d_artifacts) :
        da.relative_path = ca.relative_path

\* C8 (as claimed): once the pairing loop has run for a batch, every
\* ContentArtifact of the batch has exactly one RemoteArtifact, built from the
\* data of the DeclarativeArtifact the ContentArtifact was built from.
C8_PairedByContentAndPath ==
    \A r \in runs :
        (\/ saver[r].pc \in {"bulk_create_ra", "put", "final", "done"}
         \/ saver[r].pc = "crashed" /\ saver[r].error = "KeyError") =>
            \A k \in DOMAIN saver[r].content_artifact_bulk :
                LET ca == saver[r].content_artifact_bulk[k]
                    bulk == saver[r].remote_artifact_bulk
                    mine == {m \in DOMAIN bulk : bulk[m].content_artifact = ca}
                IN  /\ Cardinality(mine) = 1
                    /\ \A m \in mine :
                           bulk[m] = RemoteArtifact(
                                         ca, remote_artifact_data(DeclarativeArtifactOf(ca)))

\* C9: for an item whose content was a saved row when its batch was formed,
\* the saver leaves the item's content as it was, writes no Content,
\* ContentArtifact or RemoteArtifact row for it, leaves the rows of that
\* content in the store as they were, and has forwarded the item by the time
\* it returns.
C9_PassThrough ==
    \A r \in runs : \A i \in DOMAIN saver[r].batch_in :
        LET was == saver[r].batch_in[i]
        IN  was.pk # NoPk =>
                /\ dcs[r][i] = was
                /\ ~\E c \in saver[r].tx.contents : c.pk = was.pk
                /\ ~\E ca \in Range(saver[r].content_artifact_bulk) : ca.content = was.pk
                /\ ~\E ra \in Range(saver[r].remote_artifact_bulk) :
                       ra.content_artifact.content = was.pk
                /\ was \in contents
                /\ {ca \in content_artifacts : ca.content = was.pk}
                       = ExpectedContentArtifacts(was.pk)
                /\ {ra \in remote_artifacts : ra.content_artifact.content = was.pk}
                       = ExpectedRemoteArtifacts(was.pk)
                /\ saver[r].pc = "done" => i \in Items(out_q[r])

\* C9 witness: the saver has returned after a batch that held a new item and
\* an item resolved to a saved row.
C9_Witness ==
    /\ saver[1].pc = "done"
    /\ \E i, j \in DOMAIN saver[1].batch_in :
           /\ saver[1].batch_in[i].pk # NoPk
           /\ saver[1].batch_in[j].pk = NoPk
    /\ contents # {}

(***************************************************************************)
(* Properties of the repository versions                                   *)
(***************************************************************************)
\* C10: the repository always has a complete version.
C10_OneCompleteVersion == Complete(versions) # {}

\* C10 witness: a delete_version has deleted a version and left exactly one
\* complete version.
C10_Witness == outcome = "deleted" /\ Cardinality(Complete(versions)) = 1

(***************************************************************************)
(* Properties of the repository version tasks                              *)
(***************************************************************************)
Numbers(vs) == {v.number : v \in vs}

\* The versions a step has created.
Created == {v \in versions' : v.number \notin Numbers(versions)}

\* A step in which add_and_remove ran to its end.
AddStep == call'.op = "add_and_remove" /\ outcome' = "created"

\* A step of delete_version.
DeleteStep == call'.op = "delete_version"

\* The content of the version numbered n.
ContentOf(vs, n) == (CHOOSE v \in vs : v.number = n).content

\* The content of the complete version with the highest number, if any.
ContentOfLatest(vs) ==
    IF Complete(vs) = {} THEN {}
    ELSE (CHOOSE v \in Complete(vs) : \A w \in Complete(vs) : w.number <= v.number).content

\* The content add_and_remove starts from: that of base_version when one is
\* given, that of the latest version otherwise.
BaseContent(vs, base_version_pk) ==
    IF base_version_pk # -1 THEN ContentOf(vs, base_version_pk) ELSE ContentOfLatest(vs)

C12_VersionImmutable ==
    [][\A v \in Complete(versions) : \A w \in versions' :
           w.number = v.number => w.complete /\ w.content = v.content]_vars

\* C12 witness: a version with content was deleted, and a version created
\* after it with other content is still there.
C12_Witness ==
    /\ call.op = "delete_version" /\ outcome = "deleted"
    /\ \E v \in versions : v.number > call.pk /\ v.content = {"Y"}
    /\ \E v \in versions : v.number < call.pk /\ v.content = {"X"}

\* C13: delete_version of a version that exists, in a repository with exactly
\* one complete version, raises ValidationError and leaves the versions, their
\* content and the version counter as they were.
C13_SoleVersionKept ==
    [][(/\ DeleteStep
        /\ call'.pk \in Numbers(versions)
        /\ Cardinality(Complete(versions)) = 1)
          => /\ outcome' = "ValidationError"
             /\ versions' = versions
             /\ next_version' = next_version]_vars

\* C13 witness: the delete of the one version left, after others were deleted,
\* was rejected.
C13_Witness ==
    /\ call.op = "delete_version" /\ outcome = "ValidationError"
    /\ Cardinality(versions) = 1
    /\ Cardinality(assigned) > 1
    /\ call.pk \in Numbers(versions)

\* C14: delete_version of a version that does not exist returns normally and
\* changes nothing; a delete_version repeated at once changes nothing.
C14_DeleteAbsentNoOp ==
    [][/\ (DeleteStep /\ call'.pk \notin Numbers(versions))
          => /\ outcome' = "not found"
             /\ versions' = versions
             /\ next_version' = next_version
             /\ timestamp_of_interest' = timestamp_of_interest
       /\ (DeleteStep /\ call' = call /\ outcome = "deleted")
          => /\ outcome' = "not found"
             /\ versions' = versions]_vars

\* C14 witness: a version was deleted, and deleting it again found nothing.
C14_Witness ==
    /\ call.op = "delete_version" /\ outcome = "not found"
    /\ call.pk \in assigned

C17_WildcardResolved ==
    [][/\ remove_units({}, {Star}) = {}
       /\ (AddStep /\ Star \in call'.remove_content_units) =>
              /\ Cardinality(versions' \ versions) = 1
              /\ \A v \in versions' \ versions :
                     v.content = (BaseContent(versions, call'.base_version_pk)
                                     \ ContentOfLatest(versions))
                                 \cup call'.add_content_units]_vars

\* C17 witness: '*' removed the content of a latest version that held X.
C17_Witness ==
    /\ call.op = "add_and_remove" /\ outcome = "created"
    /\ call.remove_content_units = {Star}
    /\ call.base_version_pk = -1
    /\ next_version - 2 \in Numbers(versions)
    /\ ContentOf(versions, next_version - 2) = {"X"}
    /\ ContentOf(versions, next_version - 1) = {}

\* C18 (as claimed): with remove_content_units = ['*'], the version
\* add_and_remove creates holds add_content_units and nothing else, whatever
\* base_version is.
C18_WildcardRemovesAll ==
    [][(AddStep /\ call'.remove_content_units = {Star}) =>
          \A v \in versions' \ versions : v.content = call'.add_content_units]_vars

\* The ids a request names in either list.
Named(c) == c.add_content_units \cup (c.remove_content_units \ {Star})

\* C19 (as claimed): a request that names a content id that does not exist is
\* rejected with a ValidationError, creates no version and changes no stored
\* record, the content units that exist and are named in it included.
C19_UnknownIdNoChange ==
    [][(call'.op = "modify" /\ Unknown \in Named(call')) =>
          /\ outcome' = "ValidationError"
          /\ versions' = versions
          /\ next_version' = next_version
          /\ timestamp_of_interest' = timestamp_of_interest]_vars

(***************************************************************************)
(* Properties of the artifact repair                                       *)
(***************************************************************************)
Started == {k \in DOMAIN tasks : tasks[k].pc # "none"}
Running == {k \in DOMAIN tasks : tasks[k].pc \notin {"none", "finished", "raised"}}

\* C20: at most RepairCap repair tasks are started and not yet harvested, so
\* at most RepairCap are running; with RepairCap tasks pending a further one
\* is started only from the wait, which harvests a pending task that is done.
C20_RepairCap ==
    [][/\ Cardinality(repair'.pending) <= RepairCap
       /\ Cardinality(Running') <= RepairCap
       /\ Running' \subseteq repair'.pending
       /\ (Started' # Started /\ Cardinality(repair.pending) >= RepairCap) =>
              /\ repair.pc = "wait"
              /\ \E k \in repair.pending :
                     tasks[k].pc = "finished" /\ k \notin repair'.pending]_vars

\* C20 witness: a sixth repair has been started while four others, started
\* before it, are still running.
C20_Witness ==
    /\ Cardinality(Started) > RepairCap
    /\ Cardinality(Running) = RepairCap

Returned == {k \in DOMAIN tasks : tasks[k].pc = "finished"}
Kinds(k) == Range(query_set[k].remotes)

\* C21: a stored file changes only by being deleted or by becoming the bytes
\* of the recorded sha256, never by taking a download of another digest; and
\* with a first source of wrong bytes and a second of right bytes _repair_ca
\* returns True with the stored file matching the recorded sha256.
C21_VerifiedReplacement ==
    [][/\ \A a \in DOMAIN file :
              file'[a] # file[a] => file'[a] \in {"missing", "ok"}
       /\ \A k \in Returned' \ Returned :
              query_set[k].remotes = <<"bad", "good">> =>
                  /\ tasks'[k].result
                  /\ file'[query_set[k].artifact] = "ok"]_vars

\* C21 witness: a corrupt file was replaced from the second source after the
\* first one served wrong bytes.
C21_Witness ==
    \E k \in Returned :
        /\ query_set[k].remotes = <<"bad", "good">>
        /\ repair.checks[k].verify = "corrupt"
        /\ tasks[k].attempts = 2
        /\ tasks[k].result
        /\ file[query_set[k].artifact] = "ok"

\* C22: when _repair_ca returns for a ContentArtifact none of whose sources
\* serves the right bytes, it returns False, repaired is not incremented, no
\* stored file is left, and with no source at all nothing was downloaded.
C22_UnrepairableCleanup ==
    [][\A k \in Returned' \ Returned :
          "good" \notin Kinds(k) =>
              /\ ~tasks'[k].result
              /\ reports'.repaired = reports.repaired
              /\ file'[query_set[k].artifact] = "missing"
              /\ query_set[k].remotes = <<>> => tasks'[k].attempts = 0]_vars

\* C22 witness: one ContentArtifact without a source whose file was missing
\* already, and one whose corrupt file was deleted after both of its sources
\* failed.
C22_Witness ==
    \E k, l \in Returned :
        /\ query_set[k].remotes = <<>>
        /\ repair.checks[k].exists = "missing"
        /\ ~tasks[k].result
        /\ query_set[l].remotes = <<"fail", "bad">>
        /\ repair.checks[l].verify = "corrupt"
        /\ tasks[l].attempts = 2
        /\ ~tasks[l].result
        /\ file[query_set[l].artifact] = "missing"
        /\ reports.repaired = 0

\* No source raises outside the try of lines 79-82 and no file fails to be read.
NoEscape ==
    /\ \A k \in DOMAIN query_set : "raise" \notin Kinds(k)
    /\ \A a \in DOMAIN file : file[a] # "unreadable"

\* What the checks of the k-th ContentArtifact found.
FoundMissing(k) == repair.checks[k].exists = "missing"
FoundCorrupt(k) ==
    /\ repair.checks[k].exists # "missing"
    /\ repair.checks[k].verify \in {"corrupt", "missing"}

\* C23: when downloads are all that fails, the run never raises and comes to
\* its end, having checked every ContentArtifact in scope and run a repair to
\* its return for every one found invalid.
C23_FailedRepairGoesOn ==
    NoEscape =>
        /\ [](repair.pc # "raised")
        /\ <>(repair.pc = "done")
        /\ [](repair.pc = "done" =>
                 /\ Len(repair.checks) = Len(query_set)
                 /\ \A k \in DOMAIN query_set :
                        (FoundMissing(k) \/ FoundCorrupt(k)) => k \in Returned)

\* C23 witness: the run is over, every download for the first ContentArtifact
\* failed, and the second one was checked and repaired.
C23_Witness ==
    /\ repair.pc = "done"
    /\ Len(query_set) = 2
    /\ query_set[1].remotes = <<"fail", "bad">>
    /\ tasks[1].attempts = 2
    /\ ~tasks[1].result
    /\ Len(repair.checks) = 2
    /\ tasks[2].pc = "finished"
    /\ tasks[2].result

\* C24: missing counts the ContentArtifacts found without a file, corrupted
\* those found with a file that failed verification, repaired the calls of
\* _repair_ca that returned True; so repaired <= missing + corrupted.
C24_ExactCounters ==
    /\ reports.missing =
           Cardinality({k \in DOMAIN repair.checks : FoundMissing(k)})
    /\ reports.corrupted =
           Cardinality({k \in DOMAIN repair.checks : FoundCorrupt(k)})
    /\ reports.repaired = Cardinality({k \in Returned : tasks[k].result})
    /\ reports.repaired <= reports.missing + reports.corrupted
    /\ reports.missing + reports.corrupted <= Len(repair.checks)

\* C24 witness: a finished run that found one file missing and one corrupt
\* and repaired one of the two.
C24_Witness ==
    /\ repair.pc = "done"
    /\ reports.missing = 1
    /\ reports.corrupted = 1
    /\ reports.repaired = 1

\* C25 (as claimed): a repair that was given the content of a version checks
\* and repairs only ContentArtifacts of that content.
C25_RepairScope ==
    repair.subset.given =>
        /\ \A k \in DOMAIN repair.checks : query_set[k].content \in repair.subset.content
        /\ \A k \in Started : query_set[k].content \in repair.subset.content

\* C26: the three ProgressReports are closed once when the run has ended,
\* with or without an exception, and not before.
C26_ReportsClosedOnce ==
    \A n \in DOMAIN reports.closed :
        reports.closed[n] = IF repair.pc \in {"done", "raised"} THEN 1 ELSE 0

\* C26 witness: a repair task raised, the run ended with its exception, the
\* reports are closed.
C26_Witness ==
    /\ repair.pc = "raised"
    /\ Raised(DOMAIN tasks) # {}
    /\ \A n \in DOMAIN reports.closed : reports.closed[n] = 1

(***************************************************************************)
(* Further properties of the pipeline stages                               *)
(***************************************************************************)
\* C27 (as claimed): a stage that has stopped after the sentinel was put on
\* its input queue has put its own sentinel and returned, unless the store
\* failed under it; and a stage waiting in in_q.get() has not taken the
\* sentinel.
C27_StagesTerminate ==
    \A r \in runs :
        /\ produced[r] > Len(input[r]) => resolver[r].pc # "crashed"
        /\ (None \in Range(sent[r]) /\ saver[r].pc = "crashed")
               => saver[r].error = "DatabaseError"
        /\ resolver[r].pc = "loop" => ~resolver[r].shutdown
        /\ saver[r].pc = "loop" => ~saver[r].shutdown

ResolverWorking(r) == resolver[r].pc \in {"query", "put"}
SaverWorking(r) == saver[r].pc \in TxPcs \cup {"put"}

\* C28: a stage waits in in_q.get() only with an empty batch; it starts on a
\* batch only when its polls have emptied the input queue, the batch then
\* holding everything the queue held; and the batch it works on is not empty.
C28_DrainThenProcess ==
    [][\A r \in runs :
          /\ resolver'[r].pc = "loop" => resolver'[r].declarative_content_list = <<>>
          /\ saver'[r].pc = "loop" => saver'[r].declarative_content_list = <<>>
          /\ ResolverWorking(r)' => resolver'[r].declarative_content_list # <<>>
          /\ SaverWorking(r)' => saver'[r].declarative_content_list # <<>>
          /\ (resolver[r].pc = "loop" /\ resolver'[r].pc # "loop") =>
                 /\ in_q'[r] = <<>>
                 /\ resolver'[r].declarative_content_list = in_q[r]
          /\ (saver[r].pc = "loop" /\ saver'[r].pc # "loop") =>
                 /\ mid_q'[r] = <<>>
                 /\ saver'[r].declarative_content_list = mid_q[r]]_vars

\* C28 witness: the saver works on a batch of two items that were on its
\* input queue together, having worked on a batch before.
C28_Witness ==
    \E r \in runs :
        /\ saver[r].pc = "save"
        /\ Len(saver[r].declarative_content_list) >= 2
        /\ out_q[r] # <<>>

\* C29 (as claimed): the content of an item is a stored record only if the
\* record has the type and the natural key of the item's candidate, and the
\* comparison of the batch with the results does not raise.
C29_OnlyTrueMatches ==
    \A r \in runs :
        /\ resolver[r].error # "AttributeError"
        /\ \A i \in DOMAIN dcs[r] :
               dcs[r][i].pk # NoPk =>
                   /\ dcs[r][i].type = Candidate(input[r][i]).type
                   /\ \A f \in Range(natural_key_fields(dcs[r][i].type)) :
                          dcs[r][i][f] = Candidate(input[r][i])[f]

\* The model types of the candidates of a batch.
TypesOf(r, list) == {Candidate(input[r][i]).type : i \in Items(list)}

\* C30: for a batch, no model type is queried twice and none but those of
\* the batch's items; when the batch is put, each of them has been queried
\* once, and a batch of the sentinel alone has had no query.
C30_OneQueryPerType ==
    \A r \in runs :
        LET list == resolver[r].declarative_content_list
            queried == resolver[r].queried
        IN  /\ \A t \in Range(queried) : Count(queried, t) = 1
            /\ Range(queried) \subseteq TypesOf(r, list)
            /\ resolver[r].pc = "put" => Range(queried) = TypesOf(r, list)
            /\ Items(list) = {} => queried = <<>>

\* C30 witness: a batch with two items of one model type is being put after
\* one query.
C30_Witness ==
    \E r \in runs :
        /\ resolver[r].pc = "put"
        /\ Len(resolver[r].queried) = 1
        /\ Cardinality(Items(resolver[r].declarative_content_list)) = 2

\* The types of batch list all of whose entries have an empty natural key.
KeylessTypes(r, list) ==
    {t \in TypesOf(r, list) :
        \A i \in Items(list) :
            Candidate(input[r][i]).type = t =>
                DOMAIN natural_key_dict(Candidate(input[r][i])) = {}}

\* C31 (as claimed): no query is issued for a type whose entries in the batch
\* all have an empty natural key, and the candidates of those entries stay
\* as they were.
C31_EmptyKeyNoQuery ==
    \A r \in runs :
        LET list == resolver[r].declarative_content_list
        IN  /\ \A t \in KeylessTypes(r, list) : t \notin Range(resolver[r].queried)
            /\ \A i \in Items(list) :
                   Candidate(input[r][i]).type \in KeylessTypes(r, list) =>
                       dcs[r][i] = Candidate(input[r][i])

\* The stored rows that are the same entity as the candidate of item i of run r.
StoredAs(r, i) == {c \in contents : SameEntity(c, Candidate(input[r][i]))}

\* C32 (as claimed): once the saver is through with a batch that holds two
\* entries of one type and natural key, neither found in the store by the
\* resolver, the store holds one Content of that key and both entries are it.
C32_DuplicatesInBatch ==
    \A r \in runs :
        LET list == saver[r].declarative_content_list
        IN  saver[r].pc \in {"put", "done", "crashed"} =>
                \A i, j \in Items(list) :
                    (/\ i # j
                     /\ SameEntity(Candidate(input[r][i]), Candidate(input[r][j]))
                     /\ \A c \in StoredAs(r, i) : c.pk[1] = r) =>
                        /\ Cardinality(StoredAs(r, i)) <= 1
                        /\ dcs[r][i] \in StoredAs(r, i)
                        /\ dcs[r][j] = dcs[r][i]

\* C33 (as claimed): delete_version of a version that exists deletes it
\* whenever another version of the repository is complete, also when the
\* version itself is in progress and one complete version exists.
C33_FailsOnlyForSoleComplete ==
    [][(/\ DeleteStep
        /\ \E v \in versions :
               /\ v.number = call'.pk
               /\ Complete(versions) \ {v} # {})
          => /\ outcome' = "deleted"
             /\ call'.pk \notin Numbers(versions')]_vars

\* A step of delete_version on the version with the highest number, in a
\* repository with more than one complete version.
DeleteNewestStep ==
    /\ DeleteStep
    /\ call'.pk \in Numbers(versions)
    /\ \A n \in Numbers(versions) : n <= call'.pk
    /\ Cardinality(Complete(versions)) > 1

C35_ConcurrentDeletesKeepOne ==
    (/\ DOMAIN txs = Txs
     /\ Cardinality(assigned) = 2
     /\ txs[1].pk # txs[2].pk
     /\ {txs[1].pk, txs[2].pk} \subseteq assigned)
        => Complete(versions) # {}

\* C36: the n-th download of a _repair_ca is from its n-th source and is
\* made only when no source before it served the right bytes; a call that
\* returns True made its last download from a source that did, one that
\* returns False has tried every source.
C36_SourcesInOrder ==
    [][\A k \in DOMAIN tasks :
          LET remotes == query_set[k].remotes
          IN  /\ tasks'[k].attempts # tasks[k].attempts =>
                     /\ tasks'[k].attempts = tasks[k].attempts + 1
                     /\ tasks[k].remote = tasks'[k].attempts
                     /\ \A j \in 1..tasks[k].attempts : remotes[j] # "good"
              /\ k \in Returned' =>
                     IF tasks'[k].result
                     THEN remotes[tasks'[k].attempts] = "good"
                     ELSE tasks'[k].attempts = Len(remotes)]_vars

\* C36 witness: a repair returned True after one download, from the first of
\* its two sources.
C36_Witness ==
    \E k \in Returned :
        /\ query_set[k].remotes = <<"good", "bad">>
        /\ tasks[k].attempts = 1
        /\ tasks[k].result

\* C37: without verify_checksums no file is hashed and corrupted stays 0; a
\* ContentArtifact whose file was there when checked gets no repair and its
\* file stays as it was, whatever its bytes; repairs are for missing files.
C37_VerificationOptional ==
    ~repair.verify_checksums =>
        /\ reports.corrupted = 0
        /\ \A k \in DOMAIN repair.checks :
               /\ repair.checks[k].verify = "not verified"
               /\ repair.checks[k].exists # "missing" =>
                      /\ k \notin Started
                      /\ file[query_set[k].artifact] = repair.checks[k].exists
        /\ \A k \in Started : FoundMissing(k)
        /\ reports.repaired <= reports.missing

\* C37 witness: a run without verify_checksums is over; it left a corrupt
\* file as it was and repaired a missing one.
C37_Witness ==
    /\ repair.pc = "done"
    /\ ~repair.verify_checksums
    /\ \E k \in DOMAIN repair.checks :
           /\ repair.checks[k].exists = "corrupt"
           /\ file[query_set[k].artifact] = "corrupt"
    /\ \E k \in Returned : tasks[k].result

\* C38 (as claimed): when a repair run is over, the stored file of every
\* Artifact for which repaired was incremented has the recorded sha256.
C38_RepairedMeansValid ==
    repair.pc = "done" =>
        \A k \in Returned :
            tasks[k].result => file[query_set[k].artifact] = "ok"

\* What a second run finds: every check sees the file as it is, an Artifact
\* the first run repaired is found neither missing nor corrupt.
SecondRunExact ==
    /\ Len(repair'.checks) = Len(repair.checks) + 1 =>
           \A k \in {repair.i} :
               /\ repair'.checks[k].exists = file[query_set[k].artifact]
               /\ FoundMissing(k)' <=> file[query_set[k].artifact] = "missing"
    /\ \A k \in DOMAIN repair'.checks :
           query_set[k].artifact \in repair'.earlier.repaired =>
               ~FoundMissing(k)' /\ ~FoundCorrupt(k)'
    /\ \A k \in Started' : FoundMissing(k)' \/ FoundCorrupt(k)'

Exited == repair.pc \in {"done", "raised"}

\* C40 (as claimed): once the run has exited and its reports are closed, no
\* _repair_ca task it started is running, repaired is not incremented and no
\* stored file is written or deleted.
C40_NoRepairOutlivesRun ==
    [][/\ Exited' => Running' = {}
       /\ Exited => /\ reports'.repaired = reports.repaired
                     /\ file' = file]_vars

====
